---- MODULE Spec2Model ----
(***************************************************************************)
(* A model of src/asset_allocation_models_backtesting.py: the object that  *)
(* AssetAllocationBacktesting.__init__ builds from a price table, the      *)
(* step-by-step execution of run(cs_model, ts_model, cost), and direct     *)
(* calls of transaction_cost(weights_df, rets_df, cost).                   *)
(*                                                                         *)
(* Numbers.  The program computes in IEEE doubles.  A double is modelled   *)
(* as a pair <<n, d>>: d > 0 is the exact rational n/d in lowest terms,    *)
(* <<0,0>> is NaN, <<1,0>> is +inf and <<-1,0>> is -inf.  Finite           *)
(* arithmetic is exact (rounding error is not modelled, nor is the sign of *)
(* zero); the non-finite cases follow IEEE 754 as numpy and pandas do.     *)
(* Dates are identified with their position 0..n-1 in rets.index.          *)
(***************************************************************************)
EXTENDS Integers, Sequences, FiniteSets, TLC

\* ------------------------------------------------------------ bounds
NumAssets == 2      \* columns of the price table
NumRows   == 4      \* rows of the price table given to the constructor
MaxPeriod == 3      \* the constructor's period ranges over 1..MaxPeriod
CostDates == 2      \* rows of the weight table in a direct transaction_cost call
SqrtScale == 100    \* np.sqrt is rounded up to a multiple of 1/SqrtScale

Assets == 1 .. NumAssets

\* ------------------------------------------------------------ doubles
RECURSIVE GCD(_, _)
GCD(a, b) == IF b = 0 THEN a ELSE GCD(b, a % b)

IAbs(n) == IF n < 0 THEN -n ELSE n

NaN  == <<0, 0>>
PInf == <<1, 0>>
NInf == <<-1, 0>>

\* the double n/d (d # 0), in lowest terms with a positive denominator
R(n, d) ==
    LET g == GCD(IAbs(n), IAbs(d))
        s == IF d < 0 THEN -1 ELSE 1
    IN  <<(s * n) \div g, (s * d) \div g>>

Zero == R(0, 1)
One  == R(1, 1)

IsNaN(x)    == x = NaN
IsInf(x)    == x = PInf \/ x = NInf
IsFinite(x) == x[2] > 0
Sgn(x)      == IF x[1] > 0 THEN 1 ELSE IF x[1] < 0 THEN -1 ELSE 0

Neg(x) == <<-x[1], x[2]>>

Add(x, y) ==
    IF IsNaN(x) \/ IsNaN(y) THEN NaN
    ELSE IF IsInf(x) /\ IsInf(y) THEN (IF x = y THEN x ELSE NaN)
    ELSE IF IsInf(x) THEN x
    ELSE IF IsInf(y) THEN y
    ELSE LET g == GCD(x[2], y[2])
         IN  R(x[1] * (y[2] \div g) + y[1] * (x[2] \div g), (x[2] \div g) * y[2])

Sub(x, y) == Add(x, Neg(y))

Mul(x, y) ==
    IF IsNaN(x) \/ IsNaN(y) THEN NaN
    ELSE IF IsInf(x) \/ IsInf(y)
         THEN (IF Sgn(x) * Sgn(y) = 0 THEN NaN
               ELSE IF Sgn(x) * Sgn(y) > 0 THEN PInf ELSE NInf)
    ELSE R(x[1] * y[1], x[2] * y[2])

\* 1/x: 1/0 = inf, 1/inf = 0
Inv(x) ==
    IF IsNaN(x) THEN NaN
    ELSE IF IsInf(x) THEN Zero
    ELSE IF x[1] = 0 THEN PInf
    ELSE R(x[2], x[1])

\* x/y: 0/0 and inf/inf are NaN, x/0 is inf with the sign of x
Div(x, y) == Mul(x, Inv(y))

Abs(x) == <<IAbs(x[1]), x[2]>>

\* comparisons; any comparison with NaN is false
Lt(x, y) ==
    /\ ~IsNaN(x) /\ ~IsNaN(y)
    /\ IF IsFinite(x) /\ IsFinite(y) THEN x[1] * y[2] < y[1] * x[2]
       ELSE x # y /\ (x = NInf \/ y = PInf)
Le(x, y) == ~IsNaN(x) /\ ~IsNaN(y) /\ (x = y \/ Lt(x, y))

RECURSIVE RootAbove(_, _, _)
\* a power-of-two multiple h of the start with h*h*d >= n
RootAbove(n, d, h) == IF h * h * d >= n THEN h ELSE RootAbove(n, d, 2 * h)

RECURSIVE RootBetween(_, _, _, _)
\* the least k in lo+1..hi with k*k*d >= n, given lo*lo*d < n <= hi*hi*d
RootBetween(n, d, lo, hi) ==
    IF hi - lo <= 1 THEN hi
    ELSE LET mid == (lo + hi) \div 2
         IN  IF mid * mid * d >= n THEN RootBetween(n, d, lo, mid)
             ELSE RootBetween(n, d, mid, hi)

\* the least k >= 0 with k*k*d >= n
CeilRoot(n, d) == IF n <= 0 THEN 0 ELSE RootBetween(n, d, 0, RootAbove(n, d, 1))

\* np.sqrt of a double >= 0, rounded up to a multiple of 1/SqrtScale
Sqrt(x) ==
    IF IsNaN(x) \/ Lt(x, Zero) THEN NaN
    ELSE IF IsInf(x) THEN PInf
    ELSE R(CeilRoot(x[1] * SqrtScale * SqrtScale, x[2]), SqrtScale)


\* ------------------------------------------------------------ tables
\* A row is a function Assets -> double; a table is a function from a set
\* of dates (integers) to rows.  An empty table is the empty function.
NaNRow  == [a \in Assets |-> NaN]
ZeroRow == [a \in Assets |-> Zero]
Empty   == [d \in {} |-> ZeroRow]

RECURSIVE SumSeq(_)
\* numpy's sum: NaN propagates
SumSeq(s) == IF s = <<>> THEN Zero ELSE Add(s[1], SumSeq(Tail(s)))

RowSeq(row) == [k \in 1 .. NumAssets |-> row[k]]

\* ndarray.sum() of a row
NpSum(row) == SumSeq(RowSeq(row))

\* DataFrame.sum(axis=1) of a row: skipna, the sum of nothing is 0
PdSum(row) == SumSeq(SelectSeq(RowSeq(row), LAMBDA x : ~IsNaN(x)))

\* fillna(0) of a row
FillNa0(row) == [a \in Assets |-> IF IsNaN(row[a]) THEN Zero ELSE row[a]]

\* the largest date of D below d (D has one)
PrevDate(D, d) == CHOOSE e \in D : e < d /\ \A f \in D : f < d => f <= e

\* DataFrame.shift(): each row moves to the next date, the first row is NaN
Shift(tbl) ==
    [d \in DOMAIN tbl |->
        IF \E e \in DOMAIN tbl : e < d THEN tbl[PrevDate(DOMAIN tbl, d)] ELSE NaNRow]

\* the cell of a table after pandas aligned it on a larger index: a row the
\* table does not have is NaN
Cell(tbl, d, a) == IF d \in DOMAIN tbl THEN tbl[d][a] ELSE NaN

\* x * y and x - y of two tables, aligned on the union of their indexes
TblMul(x, y) ==
    [d \in DOMAIN x \cup DOMAIN y |-> [a \in Assets |-> Mul(Cell(x, d, a), Cell(y, d, a))]]
TblSub(x, y) ==
    [d \in DOMAIN x \cup DOMAIN y |-> [a \in Assets |-> Sub(Cell(x, d, a), Cell(y, d, a))]]

\* DataFrame.iloc[k:, :] of a table over dates 0..n-1
ILocFrom(tbl, k) == [d \in {e \in DOMAIN tbl : e >= k} |-> tbl[d]]

\* ------------------------------------------------------------ __init__
\* price_df.pct_change(): row 0 is NaN, row t is p[t]/p[t-1] - 1
PctChange(price_df) ==
    [t \in DOMAIN price_df |->
        IF t = 0 THEN NaNRow
        ELSE [a \in Assets |-> Sub(Div(price_df[t][a], price_df[t - 1][a]), One)]]

\* DataFrame.dropna(): the rows with a NaN are removed; the rows that stay are
\* numbered by their position
DropNa(tbl) ==
    LET keep == {t \in DOMAIN tbl : \A a \in Assets : ~IsNaN(tbl[t][a])}
        rank(t) == Cardinality({s \in keep : s < t})
    IN  [p \in 0 .. Cardinality(keep) - 1 |-> tbl[CHOOSE t \in keep : rank(t) = p]]

\* Series.rolling(w).std() at position t: the sample standard deviation
\* (ddof = 1) of the w values ending at t; NaN before w values exist, when
\* one of them is NaN, and for w = 1 (0/0)
RollingStd(col, w, t) ==
    IF t - w + 1 < 0 THEN NaN
    ELSE LET win  == [k \in 1 .. w |-> col[t - w + k]]
             mean == Div(SumSeq(win), R(w, 1))
             sq   == [k \in 1 .. w |-> Mul(Sub(win[k], mean), Sub(win[k], mean))]
         IN  Sqrt(Div(SumSeq(sq), R(w - 1, 1)))

\* self.rets
RetsOf(price_df) == DropNa(PctChange(price_df))

\* self.er: the returns times period, an array indexed by position
ErOf(r, w) == [t \in DOMAIN r |-> [a \in Assets |-> Mul(r[t][a], R(w, 1))]]

\* self.vol: rolling std times sqrt(period), an array indexed by position
VolOf(r, w) ==
    [t \in DOMAIN r |->
        [a \in Assets |->
            Mul(RollingStd([s \in DOMAIN r |-> r[s][a]], w, t), Sqrt(R(w, 1)))]]


\* ------------------------------------------------------------ CrossSectional
\* ew(er): np.ones_like(er) * (1/noa)
ew(er_row) == [a \in Assets |-> Mul(One, R(1, NumAssets))]

\* emv(vol): inv_vol = 1 / vol; inv_vol / inv_vol.sum()
emv(vol_row) ==
    LET inv_vol == [a \in Assets |-> Div(One, vol_row[a])]
    IN  [a \in Assets |-> Div(inv_vol[a], NpSum(inv_vol))]

\* msr, gmv, mdp, rp return the x of scipy's minimize (SLSQP) started at equal
\* weights with bounds [0, 1].  The optimiser is outside the program; its
\* result is one of these sample vectors: the initial guess, or all weight on
\* the first asset.
OptimizerResults ==
    { [a \in Assets |-> R(1, NumAssets)],
      [a \in Assets |-> IF a = 1 THEN One ELSE Zero] }

CsKeys     == {"EW", "MSR", "GMV", "MDP", "RP", "EMV"}
TsKeys     == {"None", "VT", "CVT"}
\* the keys a caller may pass: the recognised ones and one that is not
CsInputs   == CsKeys \cup {"XX"}
TsInputs   == TsKeys \cup {"XX"}

\* the rows one allocator call of run's loop may store for cs_model, given
\* the arrays' rows at position i (lines 268-279)
AllocatorResults(cs, er_row, vol_row) ==
    IF cs = "EW" THEN {ew(er_row)}
    ELSE IF cs = "EMV" THEN {emv(vol_row)}
    ELSE OptimizerResults


\* ------------------------------------------------------------ PortRiskFreeWeights
\* What a call returns or raises: [kind |-> "series", v |-> date -> double] or
\* [kind |-> "raise", type, line].

\* vt(port_rets, period): lines 212-214 compute the local weights, line 216
\* returns the name weigths, which is bound nowhere: NameError on every input
vt(port_rets, w) == [kind |-> "raise", type |-> "NameError", line |-> 216]

\* cvt(port_rets, period): line 232 passes args=(delta), a float and not a
\* tuple, to Rolling.apply, which raises TypeError as soon as the series has
\* a row; on a series with no row pandas calls nothing and every step of
\* lines 232-234 leaves the series empty, which cvt returns
cvt(port_rets, w) ==
    IF DOMAIN port_rets = {} THEN [kind |-> "series", v |-> port_rets]
    ELSE [kind |-> "raise", type |-> "TypeError", line |-> 232]

\* the call of lines 289 or 291
Overlay(ts, port_rets, w) == IF ts = "VT" THEN vt(port_rets, w) ELSE cvt(port_rets, w)

\* ------------------------------------------------------------ transaction_cost
\* GrownWeights with the bug of leaving the returns out: the previous weights
\* do not drift
GrownWeightsWithoutDrift(weights_df, rets_df, w) ==
    LET shifted == [d \in DOMAIN weights_df |-> FillNa0(Shift(weights_df)[d])]
        sliced  == ILocFrom(rets_df, w - 1)
        growth  == [d \in DOMAIN sliced |-> [a \in Assets |-> One]]
    IN  TblMul(shifted, growth)

\* weights_df.shift().fillna(0) * (1 + rets_df.iloc[self.period - 1:, :])
GrownWeights(weights_df, rets_df, w) ==
    LET shifted == [d \in DOMAIN weights_df |-> FillNa0(Shift(weights_df)[d])]
        sliced  == ILocFrom(rets_df, w - 1)
        growth  == [d \in DOMAIN sliced |-> [a \in Assets |-> Add(One, sliced[d][a])]]
    IN  TblMul(shifted, growth)

\* PrevWeights with the bug of leaving the division out: the grown weights
\* are not renormalised
PrevWeightsNotRenormalised(weights_df, rets_df, w) == GrownWeights(weights_df, rets_df, w)

\* prev_weights_df: the grown weights divided by their row sums (lines 247-248)
PrevWeights(weights_df, rets_df, w) ==
    LET grown == GrownWeights(weights_df, rets_df, w)
    IN  [d \in DOMAIN grown |-> [a \in Assets |-> Div(grown[d][a], PdSum(grown[d]))]]

\* transaction_cost(weights_df, rets_df, cost) on an object whose period is w
\* (lines 247-253)
transaction_cost(weights_df, rets_df, c, w) ==
    LET diff == TblSub(weights_df, PrevWeights(weights_df, rets_df, w))
    IN  [d \in DOMAIN diff |-> FillNa0([a \in Assets |-> Mul(Abs(diff[d][a]), c)])]

\* ------------------------------------------------------------ state
VARIABLES
    period,        \* self.period
    rets,          \* self.rets
    er,            \* self.er
    vol,           \* self.vol
    pc,            \* where the program is: "idle", inside run ("loop",
                   \* "history", "overlay", "combine"), "error" (an exception
                   \* left the call), "returned" (transaction_cost returned)
    cs_model,      \* run's arguments
    ts_model,
    cost,
    i,             \* run's loop counter (the next value enumerate yields)
    backtest_dict, \* run's dictionary: date -> the row the allocator returned
    snapshot,      \* date -> the position i of the arrays run's loop read for it
    cs_weights,    \* run's table after line 282
    cs_port_rets,  \* run's series after line 285: date -> double
    ts_weights,    \* run's overlay weights, a record tagged by kind
    err,           \* the exception raised: its type and the line raising it
    weights_df,    \* the arguments of a direct transaction_cost call
    rets_df,
    cost_df        \* what the direct transaction_cost call returned

vars == <<period, rets, er, vol, pc, cs_model, ts_model, cost, i, backtest_dict,
          snapshot, cs_weights, cs_port_rets, ts_weights, err, weights_df,
          rets_df, cost_df>>

object   == <<period, rets, er, vol>>
runvars  == <<cs_model, ts_model, i, backtest_dict, snapshot, cs_weights,
              cs_port_rets, ts_weights>>
callvars == <<weights_df, rets_df, cost_df>>

NoError  == [type |-> "none", line |-> 0]
Unbound  == [kind |-> "unbound"]

\* the dates of rets.index[self.period - 1:]
Eligible == {d \in DOMAIN rets : d >= period - 1}

\* the period-over-period price ratios of the price tables tried
Growth == {1, 2}

RECURSIVE PriceAt(_, _, _)
\* the price of asset a at row t of the table whose ratios are g
PriceAt(g, t, a) == IF t = 0 THEN One ELSE Mul(PriceAt(g, t - 1, a), R(g[t][a], 1))

\* the price tables tried: NumRows rows, every asset starts at 1 (pct_change
\* does not depend on the scale of a column) and moves by a ratio in Growth
PriceTables ==
    { [t \in 0 .. NumRows - 1 |-> [a \in Assets |-> PriceAt(g, t, a)]] :
        g \in [1 .. NumRows - 1 -> [Assets -> Growth]] }

\* the cost rates tried: none, and 10 bps
Costs == {Zero, R(1, 1000)}

\* AssetAllocationBacktesting(price_df, w): the fields of __init__, nothing
\* called yet
Constructed(price_df, w) ==
    /\ period = w
    /\ rets = RetsOf(price_df)
    /\ er = ErOf(RetsOf(price_df), w)
    /\ vol = VolOf(RetsOf(price_df), w)
    /\ pc = "idle"
    /\ cs_model = "" /\ ts_model = "" /\ cost = Zero /\ i = 0
    /\ backtest_dict = Empty /\ snapshot = Empty
    /\ cs_weights = Empty /\ cs_port_rets = Empty
    /\ ts_weights = Unbound
    /\ err = NoError
    /\ weights_df = Empty /\ rets_df = Empty /\ cost_df = Empty

Init == \E price_df \in PriceTables : \E w \in 1 .. MaxPeriod : Constructed(price_df, w)


\* ------------------------------------------------------------ run
\* run(cs_model, ts_model, cost) is called (lines 255-264)
RunCall ==
    /\ pc = "idle"
    /\ \E cs \in CsInputs, ts \in TsInputs, c \in Costs :
          /\ cs_model' = cs
          /\ ts_model' = ts
          /\ cost' = c
    /\ i' = 0
    /\ backtest_dict' = Empty
    /\ snapshot' = Empty
    /\ pc' = "loop"
    /\ UNCHANGED <<object, cs_weights, cs_port_rets, ts_weights, err, callvars>>

\* one iteration of the loop of lines 267-279: enumerate yields (i, index)
\* with index = rets.index[self.period - 1 + i]; the branch of cs_model
\* stores the allocator's row for the arrays' rows at position i; no branch
\* matches an unrecognised key and nothing is stored
RunAllocate ==
    /\ pc = "loop"
    /\ i < Cardinality(Eligible)
    /\ LET index == period - 1 + i
       IN  IF cs_model \in CsKeys
           THEN /\ \E row \in AllocatorResults(cs_model, er[i], vol[i]) :
                      backtest_dict' =
                          [d \in DOMAIN backtest_dict \cup {index} |->
                              IF d = index THEN row ELSE backtest_dict[d]]
                /\ snapshot' =
                      [d \in DOMAIN snapshot \cup {index} |->
                          IF d = index THEN i ELSE snapshot[d]]
           ELSE UNCHANGED <<backtest_dict, snapshot>>
    /\ i' = i + 1
    /\ UNCHANGED <<object, pc, cs_model, ts_model, cost, cs_weights, cs_port_rets,
                   ts_weights, err, callvars>>

\* lines 281-285 once the loop is over: the weight history with its NaN
\* replaced by 0, and the cross-sectional portfolio returns
RunBuildHistory ==
    /\ pc = "loop"
    /\ i = Cardinality(Eligible)
    /\ LET filled  == [d \in DOMAIN backtest_dict |-> FillNa0(backtest_dict[d])]
           cs_rets == TblMul(Shift(filled), ILocFrom(rets, period - 1))
       IN  /\ cs_weights' = filled
           /\ cs_port_rets' = [d \in DOMAIN cs_rets |-> PdSum(cs_rets[d])]
    /\ pc' = "overlay"
    /\ UNCHANGED <<object, cs_model, ts_model, cost, i, backtest_dict, snapshot,
                   ts_weights, err, callvars>>

\* lines 288-293: VT and CVT call the overlay, whose exception leaves run;
\* None binds 1; an unrecognised key binds nothing
RunOverlay ==
    /\ pc = "overlay"
    /\ \/ /\ ts_model \in {"VT", "CVT"}
          /\ LET out == Overlay(ts_model, cs_port_rets, period)
             IN  IF out.kind = "raise"
                 THEN /\ err' = [type |-> out.type, line |-> out.line]
                      /\ pc' = "error"
                      /\ UNCHANGED ts_weights
                 ELSE /\ ts_weights' = out
                      /\ pc' = "combine"
                      /\ UNCHANGED err
       \/ /\ ts_model = "None"
          /\ ts_weights' = [kind |-> "scalar", v |-> One]
          /\ pc' = "combine"
          /\ UNCHANGED err
       \/ /\ ts_model \notin TsKeys
          /\ pc' = "combine"
          /\ UNCHANGED <<ts_weights, err>>
    /\ UNCHANGED <<object, cs_model, ts_model, cost, i, backtest_dict, snapshot,
                   cs_weights, cs_port_rets, callvars>>

\* line 296 reads the name cs_weight, which is bound nowhere: NameError, on
\* every path that gets here.  Lines 297-306 are never executed.
RunCombine ==
    /\ pc = "combine"
    /\ err' = [type |-> "NameError", line |-> 296]
    /\ pc' = "error"
    /\ UNCHANGED <<object, runvars, cost, callvars>>

Next == RunCall \/ RunAllocate \/ RunBuildHistory \/ RunOverlay \/ RunCombine

Spec == Init /\ [][Next]_vars


\* ------------------------------------------------------------ transaction_cost, called directly
\* the weight rows tried: all cash, equal weights, half the exposure in equal
\* weights, everything in the first asset
WeightRows ==
    { ZeroRow,
      [a \in Assets |-> R(1, NumAssets)],
      [a \in Assets |-> R(1, 2 * NumAssets)],
      [a \in Assets |-> IF a = 1 THEN One ELSE Zero] }

\* the return rows tried: the returns of the prices' ratios
ReturnRows == [Assets -> {R(g - 1, 1) : g \in Growth}]

\* the dates of a weight table of CostDates rows, indexed as run's is
CostIndex == period - 1 .. period - 2 + CostDates

\* the object of a price table that never moves
FlatPrices == [t \in 0 .. NumRows - 1 |-> [a \in Assets |-> One]]

\* the shortest and the longest period tried
InitCost == \E w \in {1, MaxPeriod} : Constructed(FlatPrices, w)

\* transaction_cost(weights_df, rets_df, cost) is called on the object and
\* returns (lines 238-253).  rets_df has a row for every date from 0; the
\* rows before period - 1, which the slice drops, are zero.
CallTransactionCost ==
    /\ pc = "idle"
    /\ \E w \in [CostIndex -> WeightRows], r \in [CostIndex -> ReturnRows], c \in Costs :
          LET full == [d \in 0 .. period - 2 + CostDates |->
                          IF d \in CostIndex THEN r[d] ELSE ZeroRow]
          IN  /\ weights_df' = w
              /\ rets_df' = full
              /\ cost' = c
              /\ cost_df' = transaction_cost(w, full, c, period)
    /\ pc' = "returned"
    /\ UNCHANGED <<object, runvars, err>>

NextCost == CallTransactionCost

SpecCost == InitCost /\ [][NextCost]_vars


\* ------------------------------------------------------------ claims about run (Spec)
EqualRow == [a \in Assets |-> R(1, NumAssets)]

\* run has been called with a recognised configuration on a price table of
\* more than period rows (rets has one row less than the price table)
RecognisedRun ==
    /\ pc # "idle"
    /\ cs_model \in CsKeys
    /\ ts_model \in TsKeys
    /\ Cardinality(DOMAIN rets) + 1 > period

\* run is past its overlay step (lines 288-293)
OverlayDone == pc \in {"combine", "error"}

\* the call of run is over: in this program, always by an exception
RunEnded == pc = "error"

\* run is past line 285: the weight history is built
HistoryBuilt == pc \in {"overlay", "combine", "error"}

\* C1: with a recognised configuration and more than period price rows, run
\* reaches no error state on any path through run, vt or cvt.
C1_RunReachesNoError == RecognisedRun => pc # "error"

\* C2: the row stored under rebalance date d is computed from the snapshot of
\* that same date d: the arrays' rows at d's own position.
C2_SnapshotOfSameDate == \A d \in DOMAIN snapshot : snapshot[d] = d

\* C3: for VT and CVT the multiplier at date t depends only on the portfolio
\* returns strictly before t: the overlay gives every series a multiplier per
\* date, and two series that agree before t get the same multiplier at t.
C3_NoLookahead ==
    (ts_model \in {"VT", "CVT"} /\ OverlayDone) =>
        \A other \in [DOMAIN cs_port_rets -> {Zero, One}] :
            \A t \in DOMAIN cs_port_rets :
                (\A e \in DOMAIN cs_port_rets : e < t => other[e] = cs_port_rets[e]) =>
                    LET mine   == Overlay(ts_model, cs_port_rets, period)
                        theirs == Overlay(ts_model, other, period)
                    IN  /\ mine.kind = "series" /\ theirs.kind = "series"
                        /\ mine.v[t] = theirs.v[t]

\* C4: the exposure multiplier VT and CVT produce lies in [0, 1] at every date.
C4_MultiplierInUnitInterval ==
    (ts_model \in {"VT", "CVT"} /\ OverlayDone) =>
        /\ ts_weights.kind = "series"
        /\ \A t \in Eligible :
              /\ t \in DOMAIN ts_weights.v
              /\ Le(Zero, ts_weights.v[t]) /\ Le(ts_weights.v[t], One)

\* every asset's trailing volatility is defined and non-zero at every
\* rebalance date
NonZeroTrailingVol ==
    \A d \in Eligible : \A a \in Assets : IsFinite(vol[d][a]) /\ vol[d][a] # Zero

\* C5: with EW or EMV and non-zero trailing volatilities, every row of the
\* weight history has entries >= 0 that sum to 1; with EW every entry is 1/N.
C5_ClosedFormRowsOnSimplex ==
    (cs_model \in {"EW", "EMV"} /\ HistoryBuilt /\ NonZeroTrailingVol) =>
        \A d \in Eligible :
            /\ d \in DOMAIN cs_weights
            /\ \A a \in Assets : Le(Zero, cs_weights[d][a])
            /\ NpSum(cs_weights[d]) = One
            /\ cs_model = "EW" => cs_weights[d] = EqualRow

\* C6: run charges the cost rate its caller passes: called with EW, no overlay
\* and cost rate 0 it ends by returning net returns from which nothing was
\* deducted, and not in an error.
C6_ZeroCostRunReturnsGrossReturns ==
    (cs_model = "EW" /\ ts_model = "None" /\ cost = Zero /\ RunEnded) => err = NoError

\* C9: called with an unrecognised strategy or overlay key, run reports the
\* error before it iterates a date or builds a weight history.
C9_InvalidKeyRejectedFirst ==
    (pc # "idle" /\ (cs_model \notin CsKeys \/ ts_model \notin TsKeys)) =>
        /\ i = 0
        /\ pc \in {"loop", "error"}
        /\ DOMAIN cs_port_rets = {}

\* C10: EMV given a volatility row with a zero entry returns the equal-weight
\* row or the all-zero row, and no NaN or infinite entry.
C10_EmvZeroVolIsGuarded ==
    cs_model = "EMV" =>
        \A d \in DOMAIN backtest_dict :
            (\E a \in Assets : vol[snapshot[d]][a] = Zero) =>
                /\ backtest_dict[d] \in {EqualRow, ZeroRow}
                /\ \A a \in Assets : IsFinite(backtest_dict[d][a])

\* ------------------------------------------------------------ claims about transaction_cost (SpecCost)
FirstCostDate == period - 1

\* the cost summed over the assets at date d
TotalCost(d) == NpSum(cost_df[d])

\* the previous date's weights grown by the returns realised at d
GrownAt(d) ==
    [a \in Assets |-> Mul(weights_df[d - 1][a], Add(One, rets_df[d][a]))]

\* ... and renormalised to sum to 1 (NaN when there is nothing to renormalise)
DriftedAt(d) == [a \in Assets |-> Div(GrownAt(d)[a], NpSum(GrownAt(d)))]

\* the L1 distance of the weights at d from the drifted weights
TurnoverAt(d) ==
    NpSum([a \in Assets |-> Abs(Sub(weights_df[d][a], DriftedAt(d)[a]))])

\* C7 as stated: the cost is 0 at the first date, cost_rate times the L1
\* distance from the drifted, renormalised previous weights at every later
\* date, and 0 where the weights equal the drifted weights.
C7_CostIsRateTimesTurnover ==
    pc = "returned" =>
        \A d \in DOMAIN cost_df :
            IF d = FirstCostDate THEN TotalCost(d) = Zero
            ELSE /\ TotalCost(d) = Mul(cost, TurnoverAt(d))
                 /\ weights_df[d] = DriftedAt(d) => TotalCost(d) = Zero

\* C7 amended: as stated at every later date whose grown previous weights are
\* not all zero; the cost is 0 at the first date and at every date whose grown
\* previous weights are all zero (nothing to renormalise).
C7_CostIsRateTimesTurnoverOrZero ==
    pc = "returned" =>
        \A d \in DOMAIN cost_df :
            IF d = FirstCostDate \/ GrownAt(d) = ZeroRow THEN TotalCost(d) = Zero
            ELSE /\ TotalCost(d) = Mul(cost, TurnoverAt(d))
                 /\ weights_df[d] = DriftedAt(d) => TotalCost(d) = Zero

\* a date after the first with invested previous weights, where a cost is charged
C7_Witness ==
    /\ pc = "returned"
    /\ \E d \in DOMAIN cost_df :
          /\ d # FirstCostDate
          /\ GrownAt(d) # ZeroRow
          /\ Lt(Zero, TotalCost(d))
          /\ TotalCost(d) = Mul(cost, TurnoverAt(d))

\* the call's weight table holds equal weights at every date
EqualWeightHistory == \A d \in DOMAIN weights_df : weights_df[d] = EqualRow

\* every asset's return is the same at every date of the weight table
ConstantReturns == \A d, e \in DOMAIN weights_df : rets_df[d] = rets_df[e]

\* the assets' returns at d differ
UnequalReturns(d) == \E a, b \in Assets : rets_df[d][a] # rets_df[d][b]

\* the L1 distance of equal weights from equal weights drifted by the returns at d
EqualWeightDrift(d) ==
    LET tot == NpSum([a \in Assets |-> Add(One, rets_df[d][a])])
    IN  NpSum([a \in Assets |->
                  Abs(Sub(R(1, NumAssets), Div(Add(One, rets_df[d][a]), tot)))])

\* C8 as stated: non-zero cost rate, equal weights at every date, constant but
\* unequal returns: the cost is zero from the second date onward.
C8_NoCostOnConstantTargets ==
    (pc = "returned" /\ cost # Zero /\ EqualWeightHistory /\ ConstantReturns) =>
        \A d \in DOMAIN cost_df : (d # FirstCostDate /\ UnequalReturns(d)) => TotalCost(d) = Zero

\* C8 amended: equal weights at every date and constant returns: from the
\* second date onward the cost is cost_rate times the L1 distance of equal
\* weights from their drift, which is zero exactly when the cost rate is zero
\* or the assets' returns are equal.
C8_CostOfRebalancingToEqualWeights ==
    (pc = "returned" /\ EqualWeightHistory /\ ConstantReturns) =>
        \A d \in DOMAIN cost_df :
            d # FirstCostDate =>
                /\ TotalCost(d) = Mul(cost, EqualWeightDrift(d))
                /\ TotalCost(d) = Zero <=> (cost = Zero \/ ~UnequalReturns(d))

\* equal weights, constant unequal returns, a non-zero rate: a cost is charged
\* after the first date
C8_Witness ==
    /\ pc = "returned" /\ cost # Zero /\ EqualWeightHistory /\ ConstantReturns
    /\ \E d \in DOMAIN cost_df :
          d # FirstCostDate /\ UnequalReturns(d) /\ Lt(Zero, TotalCost(d))

====
